---- MODULE Spec2Model ----
(***************************************************************************)
(* Model of the runner-profile extraction core of halfmarathon-predictor:  *)
(* predictor/llm.py (_time_to_seconds, _safe_json_loads,                    *)
(* _get_openai_client, extract_runner_profile).                             *)
(*                                                                         *)
(* Python values are tagged records, so that values of different Python    *)
(* types can be compared: None, str (a sequence of one-character strings), *)
(* int, float (kept in tenths, field x10), bool, list and dict (a sequence *)
(* of key/value pairs in insertion order).                                 *)
(***************************************************************************)
EXTENDS Integers, Sequences, FiniteSets, TLC

VARIABLES
    pc,          \* position of the running extract_runner_profile call
    text,        \* argument text (None or str)
    api_key,     \* argument openai_api_key (None or str)
    requests,    \* requests sent so far to chat.completions.create
    content,     \* resp.choices[0].message.content or "{}"
    data,        \* value returned by _safe_json_loads
    sex,         \* local sex
    age,         \* local age
    t5k,         \* local t5k
    t5k_s,       \* local t5k_s
    missing,     \* local missing (the list read from the reply)
    computed,    \* local computed, the value of _time_to_seconds(t5k)
    result,      \* the returned dict, None while nothing was returned
    raised,      \* the exception that left the function, "none" if none did
    session,     \* predictor/views.py: request.session as stored between requests
    response,    \* predictor/views.py: the answer to the last request
    predicted    \* the calls of predict_halfmarathon_time in the last request

\* the variables of predictor/llm.py
llmVars == <<pc, text, api_key, requests, content, data, sex, age, t5k, t5k_s,
             missing, computed, result, raised>>

\* the variables of predictor/views.py
viewVars == <<session, response, predicted>>

vars == <<llmVars, viewVars>>

---------------------------------------------------------------------------
(* Python values *)

NONE == [t |-> "none"]

PyStr(cs) == [t |-> "str", s |-> cs]

PyInt(n) == [t |-> "int", n |-> n]

PyFloat(x10) == [t |-> "float", x10 |-> x10]

PyBool(b) == [t |-> "bool", b |-> b]

PyList(items) == [t |-> "list", items |-> items]

PyDict(kv) == [t |-> "dict", kv |-> kv]

IsStr(v) == v.t = "str"

IsList(v) == v.t = "list"

IsDict(v) == v.t = "dict"

\* bool(v): Python truthiness
Truthy(v) ==
    CASE v.t = "none"  -> FALSE
      [] v.t = "str"   -> v.s # <<>>
      [] v.t = "int"   -> v.n # 0
      [] v.t = "float" -> v.x10 # 0
      [] v.t = "bool"  -> v.b
      [] v.t = "list"  -> v.items # <<>>
      [] v.t = "dict"  -> v.kv # <<>>

\* a == b in Python for the operands the code compares (True == 1, 1 == 1.0)
NumX10(v) ==
    CASE v.t = "int"   -> v.n * 10
      [] v.t = "float" -> v.x10
      [] v.t = "bool"  -> IF v.b THEN 10 ELSE 0

IsNum(v) == v.t \in {"int", "float", "bool"}

PyEq(a, b) == IF IsNum(a) /\ IsNum(b) THEN NumX10(a) = NumX10(b) ELSE a = b

---------------------------------------------------------------------------
(* str methods *)

Whitespace == {" ", "\n", "\t"}

Digits == <<"0", "1", "2", "3", "4", "5", "6", "7", "8", "9">>

IsDigit(c) == \E d \in 1..10 : Digits[d] = c

DigitVal(c) == (CHOOSE d \in 1..10 : Digits[d] = c) - 1

LowerLetters == <<"a", "b", "c", "d", "e", "f", "g", "h", "i", "j", "k", "l", "m",
                  "n", "o", "p", "q", "r", "s", "t", "u", "v", "w", "x", "y", "z">>

UpperLetters == <<"A", "B", "C", "D", "E", "F", "G", "H", "I", "J", "K", "L", "M",
                  "N", "O", "P", "Q", "R", "S", "T", "U", "V", "W", "X", "Y", "Z">>

UpperChar(c) ==
    IF \E k \in 1..26 : LowerLetters[k] = c
    THEN UpperLetters[CHOOSE k \in 1..26 : LowerLetters[k] = c]
    ELSE c

\* s.upper()
Upper(cs) == [k \in 1..Len(cs) |-> UpperChar(cs[k])]

RECURSIVE LStrip(_)
LStrip(cs) ==
    IF cs # <<>> /\ Head(cs) \in Whitespace THEN LStrip(Tail(cs)) ELSE cs

RECURSIVE RStrip(_)
RStrip(cs) ==
    IF cs # <<>> /\ cs[Len(cs)] \in Whitespace
    THEN RStrip(SubSeq(cs, 1, Len(cs) - 1))
    ELSE cs

\* s.strip()
Strip(cs) == RStrip(LStrip(cs))

\* s.split(sep) for a one-character separator
RECURSIVE SplitFrom(_, _, _)
SplitFrom(cs, sep, cur) ==
    IF cs = <<>> THEN <<cur>>
    ELSE IF Head(cs) = sep THEN <<cur>> \o SplitFrom(Tail(cs), sep, <<>>)
    ELSE SplitFrom(Tail(cs), sep, Append(cur, Head(cs)))

Split(cs, sep) == SplitFrom(cs, sep, <<>>)

RECURSIVE DigitsValue(_, _)
DigitsValue(cs, acc) ==
    IF cs = <<>> THEN acc ELSE DigitsValue(Tail(cs), acc * 10 + DigitVal(Head(cs)))

AllDigits(cs) == cs # <<>> /\ \A k \in 1..Len(cs) : IsDigit(cs[k])

RECURSIVE NatToChars(_)
NatToChars(n) ==
    IF n < 10 THEN <<Digits[n + 1]>>
    ELSE Append(NatToChars(n \div 10), Digits[(n % 10) + 1])

IntToChars(n) == IF n < 0 THEN <<"-">> \o NatToChars(0 - n) ELSE NatToChars(n)

\* repr of a float kept in tenths: 1500.0, -0.5
FloatToChars(x10) ==
    LET a == IF x10 < 0 THEN 0 - x10 ELSE x10
    IN  (IF x10 < 0 THEN <<"-">> ELSE <<>>)
        \o NatToChars(a \div 10) \o <<".">> \o <<Digits[(a % 10) + 1]>>

\* int(s) for a str s: surrounding whitespace and one sign are accepted.
\* ok = FALSE stands for ValueError.
IntOfChars(cs) ==
    LET b == Strip(cs)
        signed == b # <<>> /\ Head(b) \in {"+", "-"}
        d == IF signed THEN Tail(b) ELSE b
    IN  IF AllDigits(d)
        THEN [ok |-> TRUE,
              n |-> IF signed /\ Head(b) = "-" THEN 0 - DigitsValue(d, 0)
                    ELSE DigitsValue(d, 0)]
        ELSE [ok |-> FALSE, n |-> 0]

\* float(s) for a str s: [sign] digits [. digits], in tenths.
\* ok = FALSE stands for ValueError.
FloatOfChars(cs) ==
    LET b == Strip(cs)
        signed == b # <<>> /\ Head(b) \in {"+", "-"}
        d == IF signed THEN Tail(b) ELSE b
        parts == Split(d, ".")
        ip == parts[1]
        fp == IF Len(parts) = 2 THEN parts[2] ELSE <<>>
        wellformed == /\ Len(parts) \in {1, 2}
                      /\ (ip = <<>> \/ AllDigits(ip))
                      /\ (fp = <<>> \/ AllDigits(fp))
                      /\ (ip # <<>> \/ fp # <<>>)
        mag == DigitsValue(ip, 0) * 10 + (IF fp = <<>> THEN 0 ELSE DigitVal(fp[1]))
    IN  IF wellformed
        THEN [ok |-> TRUE, x10 |-> IF signed /\ Head(b) = "-" THEN 0 - mag ELSE mag]
        ELSE [ok |-> FALSE, x10 |-> 0]

\* truncation toward zero of a value in tenths
TruncX10(x10) == IF x10 < 0 THEN 0 - ((0 - x10) \div 10) ELSE x10 \div 10

\* int(v): ok = FALSE stands for ValueError or TypeError
int(v) ==
    CASE v.t = "int"   -> [ok |-> TRUE, n |-> v.n]
      [] v.t = "bool"  -> [ok |-> TRUE, n |-> IF v.b THEN 1 ELSE 0]
      [] v.t = "float" -> [ok |-> TRUE, n |-> TruncX10(v.x10)]
      [] v.t = "str"   -> IntOfChars(v.s)
      [] OTHER         -> [ok |-> FALSE, n |-> 0]

\* float(v): ok = FALSE stands for ValueError or TypeError
float(v) ==
    CASE v.t = "int"   -> [ok |-> TRUE, x10 |-> v.n * 10]
      [] v.t = "bool"  -> [ok |-> TRUE, x10 |-> IF v.b THEN 10 ELSE 0]
      [] v.t = "float" -> [ok |-> TRUE, x10 |-> v.x10]
      [] v.t = "str"   -> FloatOfChars(v.s)
      [] OTHER         -> [ok |-> FALSE, x10 |-> 0]

\* str(v) and repr(v)
RECURSIVE Repr(_)
RECURSIVE ReprItems(_)
RECURSIVE ReprPairs(_)
ReprItems(items) ==
    IF items = <<>> THEN <<>>
    ELSE Repr(Head(items))
         \o (IF Len(items) > 1 THEN <<",", " ">> ELSE <<>>)
         \o ReprItems(Tail(items))

ReprPairs(kv) ==
    IF kv = <<>> THEN <<>>
    ELSE Repr(PyStr(Head(kv).k)) \o <<":", " ">> \o Repr(Head(kv).v)
         \o (IF Len(kv) > 1 THEN <<",", " ">> ELSE <<>>)
         \o ReprPairs(Tail(kv))

Repr(v) ==
    CASE v.t = "none"  -> <<"N", "o", "n", "e">>
      [] v.t = "str"   -> <<"'">> \o v.s \o <<"'">>
      [] v.t = "int"   -> IntToChars(v.n)
      [] v.t = "float" -> FloatToChars(v.x10)
      [] v.t = "bool"  -> IF v.b THEN <<"T", "r", "u", "e">>
                          ELSE <<"F", "a", "l", "s", "e">>
      [] v.t = "list"  -> <<"[">> \o ReprItems(v.items) \o <<"]">>
      [] v.t = "dict"  -> <<"{">> \o ReprPairs(v.kv) \o <<"}">>

str(v) == IF v.t = "str" THEN v.s ELSE Repr(v)

---------------------------------------------------------------------------
(* predictor/llm.py: _time_to_seconds *)

\* Returns None or an int; a ValueError of int() is caught and gives None.
llm_time_to_seconds(s0) ==
    IF s0 = NONE THEN NONE
    ELSE LET s == Strip(str(s0))
             parts == Split(s, ":")
         IN  IF s = <<>> THEN NONE
             ELSE IF Len(parts) = 2
             THEN LET m == IntOfChars(parts[1])
                      sec == IntOfChars(parts[2])
                  IN  IF m.ok /\ sec.ok THEN PyInt(m.n * 60 + sec.n) ELSE NONE
             ELSE IF Len(parts) = 3
             THEN LET h == IntOfChars(parts[1])
                      m == IntOfChars(parts[2])
                      sec == IntOfChars(parts[3])
                  IN  IF h.ok /\ m.ok /\ sec.ok
                      THEN PyInt(h.n * 3600 + m.n * 60 + sec.n)
                      ELSE NONE
             ELSE NONE

---------------------------------------------------------------------------
(* json.loads, as far as the replies drawn below need it: objects, arrays, *)
(* strings with the escapes \" \\ \/ \n \t, numbers without an exponent,   *)
(* true, false, null.                                                      *)

RECURSIVE SkipWs(_, _)
SkipWs(cs, i) ==
    IF i <= Len(cs) /\ cs[i] \in Whitespace THEN SkipWs(cs, i + 1) ELSE i

ParseFail == [ok |-> FALSE, v |-> NONE, i |-> 0]

ParseOk(v, i) == [ok |-> TRUE, v |-> v, i |-> i]

HasAt(cs, i, lit) ==
    i + Len(lit) - 1 <= Len(cs) /\ SubSeq(cs, i, i + Len(lit) - 1) = lit

\* i is the position after the opening quote
RECURSIVE ScanString(_, _, _)
ScanString(cs, i, acc) ==
    IF i > Len(cs) THEN ParseFail
    ELSE IF cs[i] = "\"" THEN ParseOk(PyStr(acc), i + 1)
    ELSE IF cs[i] = "\\"
    THEN IF i + 1 <= Len(cs) /\ cs[i + 1] \in {"\"", "\\", "/"}
         THEN ScanString(cs, i + 2, Append(acc, cs[i + 1]))
         ELSE IF i + 1 <= Len(cs) /\ cs[i + 1] = "n"
         THEN ScanString(cs, i + 2, Append(acc, "\n"))
         ELSE IF i + 1 <= Len(cs) /\ cs[i + 1] = "t"
         THEN ScanString(cs, i + 2, Append(acc, "\t"))
         ELSE ParseFail
    ELSE IF cs[i] \in {"\n", "\t"} THEN ParseFail
    ELSE ScanString(cs, i + 1, Append(acc, cs[i]))

RECURSIVE DigitsEnd(_, _)
DigitsEnd(cs, i) ==
    IF i <= Len(cs) /\ IsDigit(cs[i]) THEN DigitsEnd(cs, i + 1) ELSE i

\* -?(0|[1-9][0-9]*)(\.[0-9]+)? at position i
ScanNumber(cs, i) ==
    LET neg == cs[i] = "-"
        s == IF neg THEN i + 1 ELSE i
        ie == IF s <= Len(cs) /\ cs[s] = "0" THEN s + 1 ELSE DigitsEnd(cs, s)
        hasFrac == ie + 1 <= Len(cs) /\ cs[ie] = "." /\ IsDigit(cs[ie + 1])
        fe == IF hasFrac THEN DigitsEnd(cs, ie + 1) ELSE ie
        ival == DigitsValue(SubSeq(cs, s, ie - 1), 0)
        mag == ival * 10 + (IF hasFrac THEN DigitVal(cs[ie + 1]) ELSE 0)
    IN  IF ie = s THEN ParseFail
        ELSE IF hasFrac
        THEN ParseOk(PyFloat(IF neg THEN 0 - mag ELSE mag), fe)
        ELSE ParseOk(PyInt(IF neg THEN 0 - ival ELSE ival), ie)

\* d[k] = v on a dict kept as a sequence of pairs
DictSet(kv, k, v) ==
    IF \E j \in 1..Len(kv) : kv[j].k = k
    THEN [j \in 1..Len(kv) |-> IF kv[j].k = k THEN [k |-> k, v |-> v] ELSE kv[j]]
    ELSE Append(kv, [k |-> k, v |-> v])

\* d.get(k, default)
DictGet(d, k, default) ==
    IF \E j \in 1..Len(d.kv) : d.kv[j].k = k
    THEN d.kv[CHOOSE j \in 1..Len(d.kv) : d.kv[j].k = k].v
    ELSE default

RECURSIVE ParseValue(_, _)
RECURSIVE ParseItems(_, _, _)
RECURSIVE ParseMembers(_, _, _)

\* i is the position of the next item of the array
ParseItems(cs, i, acc) ==
    LET r == IF i > Len(cs) THEN ParseFail ELSE ParseValue(cs, i)
        j == SkipWs(cs, r.i)
    IN  IF ~r.ok \/ j > Len(cs) THEN ParseFail
        ELSE IF cs[j] = "]" THEN ParseOk(PyList(Append(acc, r.v)), j + 1)
        ELSE IF cs[j] = "," THEN ParseItems(cs, SkipWs(cs, j + 1), Append(acc, r.v))
        ELSE ParseFail

\* i is the position of the opening quote of the next key
ParseMembers(cs, i, acc) ==
    LET key == IF i <= Len(cs) /\ cs[i] = "\"" THEN ScanString(cs, i + 1, <<>>)
               ELSE ParseFail
        c == SkipWs(cs, key.i)
        vi == SkipWs(cs, c + 1)
        r == IF key.ok /\ c <= Len(cs) /\ cs[c] = ":" /\ vi <= Len(cs)
             THEN ParseValue(cs, vi)
             ELSE ParseFail
        j == SkipWs(cs, r.i)
        kv == DictSet(acc, key.v.s, r.v)
    IN  IF ~r.ok \/ j > Len(cs) THEN ParseFail
        ELSE IF cs[j] = "}" THEN ParseOk(PyDict(kv), j + 1)
        ELSE IF cs[j] = "," THEN ParseMembers(cs, SkipWs(cs, j + 1), kv)
        ELSE ParseFail

\* i <= Len(cs) is the position of the first character of the value
ParseValue(cs, i) ==
    LET c == cs[i]
        n == SkipWs(cs, i + 1)
    IN  CASE c = "\"" -> ScanString(cs, i + 1, <<>>)
          [] c = "{"  -> IF n <= Len(cs) /\ cs[n] = "}" THEN ParseOk(PyDict(<<>>), n + 1)
                         ELSE ParseMembers(cs, n, <<>>)
          [] c = "["  -> IF n <= Len(cs) /\ cs[n] = "]" THEN ParseOk(PyList(<<>>), n + 1)
                         ELSE ParseItems(cs, n, <<>>)
          [] c = "n"  -> IF HasAt(cs, i, <<"n", "u", "l", "l">>)
                         THEN ParseOk(NONE, i + 4) ELSE ParseFail
          [] c = "t"  -> IF HasAt(cs, i, <<"t", "r", "u", "e">>)
                         THEN ParseOk(PyBool(TRUE), i + 4) ELSE ParseFail
          [] c = "f"  -> IF HasAt(cs, i, <<"f", "a", "l", "s", "e">>)
                         THEN ParseOk(PyBool(FALSE), i + 5) ELSE ParseFail
          [] c = "-" \/ IsDigit(c) -> ScanNumber(cs, i)
          [] OTHER    -> ParseFail

\* json.loads(s): ok = FALSE stands for json.JSONDecodeError
json_loads(cs) ==
    LET i == SkipWs(cs, 1)
        r == IF i > Len(cs) THEN ParseFail ELSE ParseValue(cs, i)
    IN  IF r.ok /\ SkipWs(cs, r.i) = Len(cs) + 1
        THEN [ok |-> TRUE, v |-> r.v]
        ELSE [ok |-> FALSE, v |-> NONE]

---------------------------------------------------------------------------
(* predictor/llm.py: _safe_json_loads *)

FirstIndex(cs, c) ==
    IF \E i \in 1..Len(cs) : cs[i] = c
    THEN CHOOSE i \in 1..Len(cs) : cs[i] = c /\ \A j \in 1..(i - 1) : cs[j] # c
    ELSE 0

LastIndex(cs, c) ==
    IF \E i \in 1..Len(cs) : cs[i] = c
    THEN CHOOSE i \in 1..Len(cs) : cs[i] = c /\ \A j \in (i + 1)..Len(cs) : cs[j] # c
    ELSE 0

\* re.search(r"\{.*\}", text, flags=re.DOTALL): the span from the first "{"
\* to the last "}" after it; ok = FALSE stands for no match.
BraceSearch(cs) ==
    LET i == FirstIndex(cs, "{")
        j == LastIndex(cs, "}")
    IN  IF i > 0 /\ j > i
        THEN [ok |-> TRUE, group |-> SubSeq(cs, i, j)]
        ELSE [ok |-> FALSE, group |-> <<>>]

\* ok = FALSE stands for ValueError("Model did not return valid JSON.")
safe_json_loads(text0) ==
    LET stripped == Strip(IF Truthy(text0) THEN text0.s ELSE <<>>)
        direct == json_loads(stripped)
        m == BraceSearch(stripped)
        block == IF m.ok THEN json_loads(m.group) ELSE [ok |-> FALSE, v |-> NONE]
    IN  IF direct.ok THEN direct ELSE block

---------------------------------------------------------------------------
(* predictor/llm.py: extract_runner_profile, the normalisation of the      *)
(* fields of the recovered object                                          *)

K_sex == <<"s", "e", "x">>

K_age == <<"a", "g", "e">>

K_t5k == <<"t", "5", "k">>

K_t5k_s == <<"t", "5", "k", "_", "s">>

K_missing == <<"m", "i", "s", "s", "i", "n", "g">>

EmptyStr == PyStr(<<>>)

\* sex: a str is stripped and upper-cased and kept only if it is M or K;
\* a value of another type is left as it is
NormSex(raw) ==
    IF IsStr(raw)
    THEN LET u == Upper(Strip(raw.s))
         IN  IF u \in {<<"M">>, <<"K">>} THEN PyStr(u) ELSE NONE
    ELSE raw

\* age: int(age) unless age is None or ""; an exception of int() gives None
NormAge(raw) ==
    IF raw # NONE /\ ~PyEq(raw, EmptyStr)
    THEN IF int(raw).ok THEN PyInt(int(raw).n) ELSE NONE
    ELSE raw

\* t5k: a str is stripped and an empty one becomes None
NormT5k(raw) ==
    IF IsStr(raw)
    THEN IF Strip(raw.s) = <<>> THEN NONE ELSE PyStr(Strip(raw.s))
    ELSE raw

\* t5k_s: float(t5k_s) unless it is None or ""; an exception gives None
NormT5kS(raw) ==
    IF raw # NONE /\ ~PyEq(raw, EmptyStr)
    THEN IF float(raw).ok THEN PyFloat(float(raw).x10) ELSE NONE
    ELSE NONE

\* missing: the list of the reply, [] when it is not a list
NormMissing(raw) == IF IsList(raw) THEN raw ELSE PyList(<<>>)

\* whether _time_to_seconds is called: there is a t5k but no t5k_s
NeedsSeconds(t, ts) == ts = NONE /\ Truthy(t)

\* t5k_s = float(computed) when something was computed
PostT5kS(ts, c) == IF c # NONE THEN PyFloat(c.n * 10) ELSE ts

\* missing_clean with the test of the 5 km time mistaken: or for and
MissingClean_or(s, a, t, ts) ==
    (IF s = NONE THEN <<"sex">> ELSE <<>>)
    \o (IF a = NONE THEN <<"age">> ELSE <<>>)
    \o (IF t = NONE \/ ts = NONE THEN <<"t5k">> ELSE <<>>)

\* missing_clean
MissingClean(s, a, t, ts) ==
    (IF s = NONE THEN <<"sex">> ELSE <<>>)
    \o (IF a = NONE THEN <<"age">> ELSE <<>>)
    \o (IF t = NONE /\ ts = NONE THEN <<"t5k">> ELSE <<>>)

\* the dict returned at the end of the function
Profile(s, a, t, ts, m) ==
    [sex |-> s, age |-> a, t5k |-> t, t5k_s |-> ts, missing |-> m]

\* the dict returned for an empty text
EmptyTextProfile == Profile(NONE, NONE, NONE, NONE, <<"text">>)

\* the request without temperature=0: the service's default is used
ChatRequest_default_temperature(stripped) ==
    [name |-> "extract_runner_profile", temperature |-> 1,
     user |-> stripped, response_format |-> "json_object"]

\* the keyword arguments of client.chat.completions.create
ChatRequest(stripped) ==
    [name |-> "extract_runner_profile", temperature |-> 0,
     user |-> stripped, response_format |-> "json_object"]

---------------------------------------------------------------------------
(* The completion service: what chat.completions.create can answer.  The   *)
(* reply is a text; json_dumps writes a value the way the service does.    *)

EscapeChar(c) ==
    CASE c = "\"" -> <<"\\", "\"">>
      [] c = "\\" -> <<"\\", "\\">>
      [] c = "\n" -> <<"\\", "n">>
      [] c = "\t" -> <<"\\", "t">>
      [] OTHER    -> <<c>>

RECURSIVE EscapeChars(_)
EscapeChars(cs) ==
    IF cs = <<>> THEN <<>> ELSE EscapeChar(Head(cs)) \o EscapeChars(Tail(cs))

RECURSIVE json_dumps(_)
RECURSIVE DumpItems(_)
RECURSIVE DumpPairs(_)
DumpItems(items) ==
    IF items = <<>> THEN <<>>
    ELSE json_dumps(Head(items))
         \o (IF Len(items) > 1 THEN <<",", " ">> ELSE <<>>)
         \o DumpItems(Tail(items))

DumpPairs(kv) ==
    IF kv = <<>> THEN <<>>
    ELSE json_dumps(PyStr(Head(kv).k)) \o <<":", " ">> \o json_dumps(Head(kv).v)
         \o (IF Len(kv) > 1 THEN <<",", " ">> ELSE <<>>)
         \o DumpPairs(Tail(kv))

json_dumps(v) ==
    CASE v.t = "none"  -> <<"n", "u", "l", "l">>
      [] v.t = "str"   -> <<"\"">> \o EscapeChars(v.s) \o <<"\"">>
      [] v.t = "int"   -> IntToChars(v.n)
      [] v.t = "float" -> FloatToChars(v.x10)
      [] v.t = "bool"  -> IF v.b THEN <<"t", "r", "u", "e">>
                          ELSE <<"f", "a", "l", "s", "e">>
      [] v.t = "list"  -> <<"[">> \o DumpItems(v.items) \o <<"]">>
      [] v.t = "dict"  -> <<"{">> \o DumpPairs(v.kv) \o <<"}">>

\* marks a key the reply leaves out
ABSENT == [t |-> "absent"]

Pair(k, v) == IF v = ABSENT THEN <<>> ELSE <<[k |-> k, v |-> v]>>

RawObject(s, a, t, ts, m) ==
    PyDict(Pair(K_sex, s) \o Pair(K_age, a) \o Pair(K_t5k, t)
           \o Pair(K_t5k_s, ts) \o Pair(K_missing, m))

SexRaws ==
    { ABSENT, NONE, PyStr(<<"M">>), PyStr(<<" ", "k", "\n">>),
      PyStr(<<"m", "a", "l", "e">>), PyStr(<<"k", "o", "b", "i", "e", "t", "a">>),
      PyStr(<<"?">>), PyInt(1) }

AgeRaws ==
    { NONE, EmptyStr, PyInt(40), PyFloat(409), PyStr(<<"4", "0">>),
      PyStr(<<"4", "0", ".", "9">>),
      PyStr(<<"f", "o", "r", "t", "y", "-", "i", "s", "h">>) }

T5kRaws ==
    { NONE, EmptyStr,
      PyStr(<<"2", "5", ":", "0", "0">>),
      PyStr(<<" ", "2", "5", ":", "0", "0", " ">>),
      PyStr(<<"2", "5", ":", "9", "9">>),
      PyStr(<<"-", "1", ":", "3", "0">>),
      PyStr(<<"5", ":", "7">>),
      PyStr(<<"1", "2", "3", ":", "4", "5">>),
      PyStr(<<"1", ":", "0", "2", ":", "0", "3">>),
      PyStr(<<"2", "5", " ", "m", "i", "n", "u", "t">>),
      PyStr(<<"2", "5", "m", " ", "3", "0", "s">>),
      PyStr(<<"s", "o", "o", "n">>),
      PyInt(25) }

T5kSRaws ==
    { ABSENT, NONE, EmptyStr, PyInt(1500), PyFloat(15005),
      PyStr(<<"1", "5", "0", "0">>), PyStr(<<"f", "a", "s", "t">>) }

MissingRaws ==
    { ABSENT, PyList(<<>>), PyList(<<PyStr(K_age)>>), PyStr(<<"n", "o", "n", "e">>) }

RawObjects ==
    { RawObject(s, a, t, ts, m) :
        s \in SexRaws, a \in AgeRaws, t \in T5kRaws, ts \in T5kSRaws, m \in MissingRaws }

\* replies that are JSON but not an object
NonObjects == { PyList(<<PyInt(1), PyInt(2)>>), PyInt(42), NONE, PyStr(<<"n", "o">>) }

\* what the service puts before and after the JSON text
Wrappers ==
    { [pre |-> <<>>, post |-> <<>>],
      [pre |-> <<" ">>, post |-> <<"\n">>],
      [pre |-> <<"b", "l", "a", "h", " ">>, post |-> <<" ", "-", "-", " ", "d", "o", "n", "e">>],
      [pre |-> <<"~", "~", "~", "j", "s", "o", "n", "\n">>, post |-> <<"\n", "~", "~", "~">>],
      [pre |-> <<"s", "e", "e", " ", "{", "x", "}", " ">>, post |-> <<>>] }

Wrap(w, body) == PyStr(w.pre \o body \o w.post)

\* the objects that are sent wrapped as well as bare
WrappedObjects ==
    { RawObject(s, PyInt(40), t, ABSENT, ABSENT) : s \in SexRaws, t \in T5kRaws }

Replies ==
    { PyStr(json_dumps(v)) : v \in RawObjects }
    \cup { Wrap(w, json_dumps(v)) : w \in Wrappers, v \in WrappedObjects \cup NonObjects }
    \cup { PyStr(<<"n", "o", " ", "o", "b", "j", "e", "c", "t">>), EmptyStr, NONE }

\* the failures of the request
ApiErrors ==
    { "APIConnectionError", "AuthenticationError", "RateLimitError", "APITimeoutError" }

---------------------------------------------------------------------------
(* The arguments of a call *)

MaxPad == 1

RECURSIVE Spaces(_)
Spaces(n) == IF n = 0 THEN <<>> ELSE <<" ">> \o Spaces(n - 1)

Texts ==
    { NONE }
    \cup { PyStr(Spaces(n)) : n \in 0..MaxPad }
    \cup { PyStr(Spaces(n) \o <<"K", "4", "0">> \o Spaces(n)) : n \in 0..MaxPad }

Keys == { NONE, EmptyStr, PyStr(<<"s", "k">>) }

---------------------------------------------------------------------------
(* predictor/views.py: the session and the answer before any request *)

SessionKeys == {"form_data", "text_data", "result", "text_result", "error_left", "error_right"}

LeftKeys == {"form_data", "result", "error_left"}

RightKeys == {"text_data", "text_result", "error_right"}

\* a session without any of the keys
EmptySession == [k \in SessionKeys |-> ABSENT]

NoResponse ==
    [endpoint |-> "none", status |-> 0, error |-> FALSE, unhandled |-> "none",
     request |-> NONE]

ViewsIdle ==
    /\ session = EmptySession
    /\ response = NoResponse
    /\ predicted = <<>>

---------------------------------------------------------------------------
(* predictor/views.py: _format_mmss and _postprocess_extracted             *)

\* round(x) of a float kept in tenths: to the nearest int, a half to even
PyRound(x10) ==
    LET q == x10 \div 10
        r == x10 % 10
    IN  IF r < 5 THEN q
        ELSE IF r > 5 THEN q + 1
        ELSE IF q % 2 = 0 THEN q ELSE q + 1

\* format(n, "02d")
Pad2(n) == IF 0 <= n /\ n < 10 THEN <<"0">> \o NatToChars(n) ELSE IntToChars(n)

\* _format_mmss with the minutes wrapped at 60, as _format_hhmmss does
format_mmss_wrapped(seconds) ==
    LET s == PyRound(seconds.x10)
    IN  Pad2((s \div 60) % 60) \o <<":">> \o Pad2(s % 60)

\* _format_mmss(seconds) for a float
format_mmss(seconds) ==
    LET s == PyRound(seconds.x10)
    IN  Pad2(s \div 60) \o <<":">> \o Pad2(s % 60)

\* x in (None, "")
IsNoneOrEmpty(x) == PyEq(x, NONE) \/ PyEq(x, EmptyStr)

\* _postprocess_extracted(extracted): a t5k_s without a t5k gives the t5k;
\* an exception of float() is caught and leaves the dict as it is
postprocess_extracted(extracted) ==
    IF IsNoneOrEmpty(extracted.t5k) /\ ~IsNoneOrEmpty(extracted.t5k_s)
    THEN IF float(extracted.t5k_s).ok
         THEN [extracted EXCEPT
                 !.t5k = PyStr(format_mmss(PyFloat(float(extracted.t5k_s).x10)))]
         ELSE extracted
    ELSE extracted

---------------------------------------------------------------------------
(* predictor/llm.py: extract_runner_profile, step by step *)

Init ==
    /\ ViewsIdle
    /\ pc = "start"
    /\ text \in Texts
    /\ api_key \in Keys
    /\ requests = <<>>
    /\ content = NONE
    /\ data = NONE
    /\ sex = NONE
    /\ age = NONE
    /\ t5k = NONE
    /\ t5k_s = NONE
    /\ missing = NONE
    /\ computed = NONE
    /\ result = NONE
    /\ raised = "none"

\* text = (text or "").strip(); an empty text returns at once
CheckText ==
    /\ pc = "start"
    /\ UNCHANGED viewVars
    /\ LET stripped == Strip(IF Truthy(text) THEN text.s ELSE <<>>)
       IN  /\ text' = PyStr(stripped)
           /\ IF stripped = <<>>
              THEN /\ result' = EmptyTextProfile
                   /\ pc' = "done"
              ELSE /\ result' = result
                   /\ pc' = "client"
    /\ UNCHANGED <<api_key, requests, content, data, sex, age, t5k, t5k_s,
                   missing, computed, raised>>

\* client = _get_openai_client(openai_api_key)
GetClient ==
    /\ pc = "client"
    /\ UNCHANGED viewVars
    /\ IF ~Truthy(api_key)
       THEN /\ raised' = "ValueError"
            /\ pc' = "done"
       ELSE /\ raised' = raised
            /\ pc' = "create"
    /\ UNCHANGED <<text, api_key, requests, content, data, sex, age, t5k, t5k_s,
                   missing, computed, result>>

\* client.chat.completions.create(...) is called
Create ==
    /\ pc = "create"
    /\ UNCHANGED viewVars
    /\ requests' = Append(requests, ChatRequest(text.s))
    /\ pc' = "await"
    /\ UNCHANGED <<text, api_key, content, data, sex, age, t5k, t5k_s, missing,
                   computed, result, raised>>

\* the request is answered: content = resp.choices[0].message.content or "{}"
CreateReturns ==
    /\ pc = "await"
    /\ UNCHANGED viewVars
    /\ \E c \in Replies :
          content' = IF Truthy(c) THEN c ELSE PyStr(<<"{", "}">>)
    /\ pc' = "loads"
    /\ UNCHANGED <<text, api_key, requests, data, sex, age, t5k, t5k_s, missing,
                   computed, result, raised>>

\* the request fails: the exception is not caught
CreateRaises ==
    /\ pc = "await"
    /\ UNCHANGED viewVars
    /\ \E e \in ApiErrors : raised' = e
    /\ pc' = "done"
    /\ UNCHANGED <<text, api_key, requests, content, data, sex, age, t5k, t5k_s,
                   missing, computed, result>>

\* data = _safe_json_loads(content)
SafeJsonLoads ==
    /\ pc = "loads"
    /\ UNCHANGED viewVars
    /\ LET r == safe_json_loads(content)
       IN  IF r.ok
           THEN /\ data' = r.v
                /\ raised' = raised
                /\ pc' = "normalize"
           ELSE /\ data' = data
                /\ raised' = "ValueError"
                /\ pc' = "done"
    /\ UNCHANGED <<text, api_key, requests, content, sex, age, t5k, t5k_s,
                   missing, computed, result>>

\* the fields are read with data.get and normalised
Normalize ==
    /\ pc = "normalize"
    /\ UNCHANGED viewVars
    /\ IF IsDict(data)
       THEN /\ sex' = NormSex(DictGet(data, K_sex, NONE))
            /\ age' = NormAge(DictGet(data, K_age, NONE))
            /\ t5k' = NormT5k(DictGet(data, K_t5k, NONE))
            /\ t5k_s' = NormT5kS(DictGet(data, K_t5k_s, NONE))
            /\ missing' = NormMissing(DictGet(data, K_missing, PyList(<<>>)))
            /\ raised' = raised
            /\ pc' = "post"
       ELSE /\ raised' = "AttributeError"
            /\ pc' = "done"
            /\ UNCHANGED <<sex, age, t5k, t5k_s, missing>>
    /\ UNCHANGED <<text, api_key, requests, content, data, computed, result>>

\* if there is a t5k but no t5k_s, t5k_s is computed locally
PostProcess ==
    /\ pc = "post"
    /\ UNCHANGED viewVars
    /\ IF NeedsSeconds(t5k, t5k_s)
       THEN /\ computed' = llm_time_to_seconds(t5k)
            /\ t5k_s' = PostT5kS(t5k_s, computed')
       ELSE UNCHANGED <<computed, t5k_s>>
    /\ pc' = "return"
    /\ UNCHANGED <<text, api_key, requests, content, data, sex, age, t5k,
                   missing, result, raised>>

\* missing_clean is built and the dict returned
Return ==
    /\ pc = "return"
    /\ UNCHANGED viewVars
    /\ result' = Profile(sex, age, t5k, t5k_s, MissingClean(sex, age, t5k, t5k_s))
    /\ pc' = "done"
    /\ UNCHANGED <<text, api_key, requests, content, data, sex, age, t5k, t5k_s,
                   missing, computed, raised>>

\* predictor/views.py: the caller passes the returned dict through
\* _postprocess_extracted
PostprocessExtracted ==
    /\ pc = "done"
    /\ UNCHANGED viewVars
    /\ result # NONE
    /\ result' = postprocess_extracted(result)
    /\ pc' = "postprocessed"
    /\ UNCHANGED <<text, api_key, requests, content, data, sex, age, t5k, t5k_s,
                   missing, computed, raised>>

Next ==
    \/ CheckText
    \/ GetClient
    \/ Create
    \/ CreateReturns
    \/ CreateRaises
    \/ SafeJsonLoads
    \/ Normalize
    \/ PostProcess
    \/ Return
    \/ PostprocessExtracted

Spec == Init /\ [][Next]_vars

---------------------------------------------------------------------------
(* predictor/views.py: _time_to_seconds and parse_input *)

\* _time_to_seconds(s) of views.py: ok = FALSE stands for ValueError
views_time_to_seconds(s0) ==
    LET s == Strip(str(s0))
        parts == Split(s, ":")
        p1 == IntOfChars(parts[1])
        p2 == IntOfChars(parts[2])
        p3 == IntOfChars(parts[3])
    IN  IF Len(parts) = 2
        THEN IF p1.ok /\ p2.ok THEN [ok |-> TRUE, n |-> p1.n * 60 + p2.n]
             ELSE [ok |-> FALSE, n |-> 0]
        ELSE IF Len(parts) = 3
        THEN IF p1.ok /\ p2.ok /\ p3.ok
             THEN [ok |-> TRUE, n |-> p1.n * 3600 + p2.n * 60 + p3.n]
             ELSE [ok |-> FALSE, n |-> 0]
        ELSE [ok |-> FALSE, n |-> 0]

\* key in payload: exc is TypeError for a payload that is no container
KeyIn(k, payload) ==
    CASE payload.t = "dict" ->
            [exc |-> "none", b |-> \E j \in 1..Len(payload.kv) : payload.kv[j].k = k]
      [] payload.t = "list" ->
            [exc |-> "none", b |-> \E j \in 1..Len(payload.items) : payload.items[j] = PyStr(k)]
      [] payload.t = "str" ->
            [exc |-> "none", b |-> \E i \in 0..(Len(payload.s) - Len(k)) :
                                      SubSeq(payload.s, i + 1, i + Len(k)) = k]
      [] OTHER -> [exc |-> "TypeError", b |-> FALSE]

\* "k" not in payload or payload.get("k") in (None, ""): exc is TypeError for
\* a payload that is no container, AttributeError for one without get
AbsentOrEmpty(k, payload) ==
    LET in == KeyIn(k, payload)
    IN  IF in.exc # "none" THEN in
        ELSE IF ~in.b THEN [exc |-> "none", b |-> TRUE]
        ELSE IF ~IsDict(payload) THEN [exc |-> "AttributeError", b |-> FALSE]
        ELSE [exc |-> "none", b |-> IsNoneOrEmpty(DictGet(payload, k, NONE))]

\* what parse_input gives: the triple, or the exception it raises
Parsed(s, a, ts) == [exc |-> "none", msg |-> "", sex |-> s, age |-> a, t5k_s |-> ts]

Raises(e, m) == [exc |-> e, msg |-> m, sex |-> <<>>, age |-> 0, t5k_s |-> 0]

\* 10 <= age <= 90
AgeInRange(a) == 10 <= a /\ a <= 90

\* 12 * 60 <= t5k_s <= 60 * 60, t5k_s in tenths
TimeInRange(x10) == 12 * 60 * 10 <= x10 /\ x10 <= 60 * 60 * 10

\* parse_input(payload), after the three tests of presence
ParseFields(payload) ==
    LET s == Upper(Strip(str(DictGet(payload, K_sex, NONE))))
        a == int(DictGet(payload, K_age, NONE))
        hasSeconds == KeyIn(K_t5k_s, payload).b
                      /\ ~IsNoneOrEmpty(DictGet(payload, K_t5k_s, NONE))
        fromSeconds == float(DictGet(payload, K_t5k_s, NONE))
        fromString == IF KeyIn(K_t5k, payload).b
                      THEN views_time_to_seconds(DictGet(payload, K_t5k, NONE))
                      ELSE [ok |-> FALSE, n |-> 0]
        ts == IF hasSeconds THEN fromSeconds
              ELSE [ok |-> fromString.ok, x10 |-> fromString.n * 10]
    IN  IF s \notin {<<"M">>, <<"K">>}
        THEN Raises("ValueError", "sex musi byc 'M' albo 'K'.")
        ELSE IF ~a.ok
        THEN Raises("ValueError", "age musi byc liczba calkowita.")
        ELSE IF ~ts.ok
        THEN Raises("ValueError", "Czas 5 km jest niepoprawny.")
        ELSE IF ~AgeInRange(a.n)
        THEN Raises("ValueError", "Wiek musi byc w zakresie 10-90.")
        ELSE IF ~TimeInRange(ts.x10)
        THEN Raises("ValueError", "Czas 5 km musi byc w zakresie 12:00-60:00.")
        ELSE Parsed(s, a.n, ts.x10)

\* parse_input(payload)
parse_input(payload) ==
    LET noSex == AbsentOrEmpty(K_sex, payload)
        noAge == AbsentOrEmpty(K_age, payload)
        noSeconds == AbsentOrEmpty(K_t5k_s, payload)
        noString == AbsentOrEmpty(K_t5k, payload)
    IN  IF noSex.exc # "none" THEN Raises(noSex.exc, "")
        ELSE IF noSex.b THEN Raises("ValueError", "Brakuje pola: sex (M/K).")
        ELSE IF noAge.exc # "none" THEN Raises(noAge.exc, "")
        ELSE IF noAge.b THEN Raises("ValueError", "Brakuje pola: age (wiek).")
        ELSE IF noSeconds.exc # "none" THEN Raises(noSeconds.exc, "")
        ELSE IF noSeconds.b /\ noString.exc # "none" THEN Raises(noString.exc, "")
        ELSE IF noSeconds.b /\ noString.b
        THEN Raises("ValueError", "Brakuje czasu 5 km.")
        ELSE ParseFields(payload)

---------------------------------------------------------------------------
(* The round trip of _format_mmss through predictor/llm.py:                *)
(* _time_to_seconds                                                        *)

MaxMinutes == 101

\* the minutes of the seconds drawn: few, and around the third digit
MinuteSamples == (0..2) \cup {59, 60} \cup (98..MaxMinutes)

SecondsInputs ==
    { PyFloat((m * 60 + sec) * 10 + tenth) :
        m \in MinuteSamples, sec \in {0, 1, 9, 10, 29, 30, 58, 59}, tenth \in 0..9 }

CodecInit ==
    /\ ViewsIdle
    /\ pc = "format"
    /\ t5k_s \in SecondsInputs
    /\ t5k = NONE
    /\ computed = NONE
    /\ text = NONE
    /\ api_key = NONE
    /\ requests = <<>>
    /\ content = NONE
    /\ data = NONE
    /\ sex = NONE
    /\ age = NONE
    /\ missing = NONE
    /\ result = NONE
    /\ raised = "none"

\* t5k = _format_mmss(t5k_s)
FormatMmss ==
    /\ pc = "format"
    /\ t5k' = PyStr(format_mmss(t5k_s))
    /\ pc' = "decode"
    /\ UNCHANGED <<text, api_key, requests, content, data, sex, age, t5k_s,
                   missing, computed, result, raised>>
    /\ UNCHANGED viewVars

\* computed = _time_to_seconds(t5k)
TimeToSeconds ==
    /\ pc = "decode"
    /\ computed' = llm_time_to_seconds(t5k)
    /\ pc' = "decoded"
    /\ UNCHANGED <<text, api_key, requests, content, data, sex, age, t5k, t5k_s,
                   missing, result, raised>>
    /\ UNCHANGED viewVars

CodecNext ==
    \/ FormatMmss
    \/ TimeToSeconds

CodecSpec == CodecInit /\ [][CodecNext]_vars

---------------------------------------------------------------------------
(* predictor/views.py: the endpoints.  A request is one step; response is the
   answer to the last request, predicted the calls of the regression it made *)

K_text == <<"t", "e", "x", "t">>

K_openai_api_key == <<"o", "p", "e", "n", "a", "i", "_", "a", "p", "i", "_", "k", "e", "y">>

\* a message of the application, kept whole
Message(m) == [t |-> "message", m |-> m]

\* the arguments of one call predict_halfmarathon_time(t5k_s=, age=, sex=)
Call(p) == [sex |-> p.sex, age |-> p.age, t5k_s |-> p.t5k_s]

\* {"t21k_s": t21k_s, "t21k_hhmmss": _format_hhmmss(t21k_s)}: the regression
\* is a fitted model loaded from disk, its value is kept as the call it answers
Prediction(p) == [t |-> "prediction", of |-> Call(p)]

\* load_model: the model file is there, or fetching it raises
LoadOutcomes == {"none", "FileNotFoundError"}

Response(e, st, err, unh, req) ==
    [endpoint |-> e, status |-> st, error |-> err, unhandled |-> unh,
     request |-> req]

Methods == {"GET", "POST"}

\* require_GET, require_POST: any other method is answered 405 before the view
NotAllowed(e, allowed) ==
    /\ \E method \in Methods \ {allowed} : TRUE
    /\ response' = Response(e, 405, TRUE, "none", NONE)
    /\ predicted' = <<>>
    /\ UNCHANGED session

\* binding of a call's arguments to extract_runner_profile(text,
\* openai_api_key, *, model=None): npos positional ones and the keywords kws
BindExtract(npos, kws) ==
    IF \/ npos > 2
       \/ ~(kws \subseteq {"text", "openai_api_key", "model"})
       \/ (npos >= 1 /\ "text" \in kws)
       \/ (npos >= 2 /\ "openai_api_key" \in kws)
       \/ (npos < 1 /\ "text" \notin kws)
       \/ (npos < 2 /\ "openai_api_key" \notin kws)
    THEN "TypeError"
    ELSE "none"

FormField(k, values) == {Pair(k, v) : v \in values}

\* the fields a browser posts to predict_form: one field varies at a time
FormPosts ==
    LET m == Pair(K_sex, PyStr(<<"M">>))
        a == Pair(K_age, PyStr(<<"4", "0">>))
        t == Pair(K_t5k, PyStr(<<"2", "5", ":", "0", "0">>))
    IN  {PyDict(x \o a \o t) :
            x \in FormField(K_sex, {ABSENT, PyStr(<<" ", "k">>), PyStr(<<"X">>)})}
        \cup
        {PyDict(m \o x \o t) :
            x \in FormField(K_age, {EmptyStr, PyStr(<<"9">>), PyStr(<<"9", "0">>),
                                    PyStr(<<"9", "1">>),
                                    PyStr(<<"9", "0", ".", "5">>)})}
        \cup
        {PyDict(m \o a \o x) :
            x \in FormField(K_t5k, {PyStr(<<"1", "1", ":", "5", "9">>),
                                    PyStr(<<"6", "0", ":", "0", "0">>),
                                    PyStr(<<"6", "0", ":", "0", "1">>),
                                    PyStr(<<"a", "b">>)})}

\* {"sex": sex_in, "age": age_in, "t5k": t5k_in} with request.POST.get(k, "")
Form(post) ==
    PyDict(<<[k |-> K_sex, v |-> DictGet(post, K_sex, EmptyStr)],
             [k |-> K_age, v |-> DictGet(post, K_age, EmptyStr)],
             [k |-> K_t5k, v |-> DictGet(post, K_t5k, EmptyStr)]>>)

\* parse_input of each form, computed once
ParsedForm == [post \in FormPosts |-> parse_input(Form(post))]

\* the fields a browser posts to predict_text_form
TextPosts ==
    {PyDict(x) : x \in FormField(K_text, {ABSENT, PyStr(<<" ">>),
                                          PyStr(<<"a", "b">>)})}

\* what extract_runner_profile gives a caller: a profile, or an exception
ExtractOutcomes ==
    {[exc |-> "none", profile |-> q] :
        q \in {Profile(PyStr(<<"M">>), PyInt(40), NONE, PyFloat(15000), <<>>),
               Profile(PyStr(<<"K">>), PyInt(95),
                       PyStr(<<"2", "5", ":", "0", "0">>), PyFloat(15000), <<>>),
               Profile(NONE, NONE, NONE, NONE, <<"sex", "age", "t5k">>)}}
    \cup {[exc |-> e, profile |-> NONE] : e \in {"ValueError", "APIError"}}

\* the outcomes of a call of extract_runner_profile with npos positional
\* arguments and the keywords kws: binding them fails before the body runs
ExtractCall(npos, kws) ==
    IF BindExtract(npos, kws) = "none" THEN ExtractOutcomes
    ELSE {[exc |-> BindExtract(npos, kws), profile |-> NONE]}

\* payload2 of the text endpoints
Payload2(extracted) ==
    PyDict(<<[k |-> K_sex, v |-> extracted.sex], [k |-> K_age, v |-> extracted.age],
             [k |-> K_t5k, v |-> extracted.t5k],
             [k |-> K_t5k_s, v |-> extracted.t5k_s]>>)

\* home: GET / pops the six keys of both panels
Home ==
    /\ UNCHANGED llmVars
    /\ \/ NotAllowed("home", "GET")
       \/ /\ session' = [k \in SessionKeys |-> ABSENT]
          /\ response' = Response("home", 200, FALSE, "none", NONE)
          /\ predicted' = <<>>

\* the left panel of predict_form after the try block
FormSession(sess, form, p, load) ==
    IF p.exc = "none" /\ load = "none"
    THEN [sess EXCEPT !["form_data"] = form,
                      !["result"] = Prediction(p),
                      !["error_left"] = ABSENT]
    ELSE [sess EXCEPT !["form_data"] = form,
                      !["error_left"] = Message(IF p.exc = "none" THEN load ELSE p.msg),
                      !["result"] = NONE]

\* predict_form: POST of the classic form
PredictForm ==
    /\ UNCHANGED llmVars
    /\ \/ NotAllowed("predict_form", "POST")
       \/ \E post \in FormPosts, load \in LoadOutcomes :
             \E form \in {Form(post)}, p \in {ParsedForm[post]} :
                 /\ p.exc = "none" \/ load = "none"
                 /\ session' = FormSession(session, form, p, load)
                 /\ predicted' = IF p.exc = "none" THEN <<Call(p)>> ELSE <<>>
                 /\ response' = Response("predict_form", 200,
                                         ~(p.exc = "none" /\ load = "none"), "none", post)

\* the right panel of predict_text_form before the text is looked at, with
\* the left result cleared in place of the right one
TextSession_left(sess, txt) ==
    [sess EXCEPT !["text_data"] = PyDict(<<[k |-> K_text, v |-> PyStr(txt)]>>),
                 !["error_right"] = ABSENT,
                 !["result"] = NONE]

\* the right panel of predict_text_form before the text is looked at
TextSession(sess, txt) ==
    [sess EXCEPT !["text_data"] = PyDict(<<[k |-> K_text, v |-> PyStr(txt)]>>),
                 !["error_right"] = ABSENT,
                 !["text_result"] = NONE]

\* the right panel of predict_text_form once a profile is extracted
TextResultSession(sess, txt, extracted, p, load) ==
    IF extracted.missing # <<>>
    THEN [sess EXCEPT !["text_result"] =
             [t |-> "text_result", input_text |-> txt, extracted |-> extracted,
              missing |-> extracted.missing, prediction |-> NONE]]
    ELSE IF p.exc = "none" /\ load = "none"
    THEN [sess EXCEPT !["text_result"] =
             [t |-> "text_result", input_text |-> txt, extracted |-> extracted,
              missing |-> <<>>, prediction |-> Prediction(p)]]
    ELSE [sess EXCEPT !["error_right"] = Message(IF p.exc = "none" THEN load ELSE p.msg),
                      !["text_result"] = NONE]

\* str(fields.get("text", "")).strip()
TextOf(fields) == Strip(str(DictGet(fields, K_text, EmptyStr)))

\* _postprocess_extracted(extract_runner_profile(...)) where the call returns
Extracted(out) ==
    IF out.exc = "none" THEN postprocess_extracted(out.profile) ELSE out.profile

\* parse_input(payload2) where the call returns
ParsedProfile(out) ==
    IF out.exc = "none" THEN parse_input(Payload2(Extracted(out)))
    ELSE Raises(out.exc, "")

\* predict_text_form: POST of the free text.  An exception that leaves the
\* view is answered 500, and the session of a 500 answer is stored or not
PredictTextForm ==
    /\ UNCHANGED llmVars
    /\ \/ NotAllowed("predict_text_form", "POST")
       \/ \E post \in TextPosts, out \in ExtractCall(1, {}), load \in LoadOutcomes,
             saved \in BOOLEAN :
             \E txt \in {TextOf(post)}, extracted \in {Extracted(out)},
                p \in {ParsedProfile(out)} :
                 IF txt = <<>>
                 THEN /\ session' = [TextSession(session, txt) EXCEPT !["error_right"] =
                                        Message("Brakuje tekstu wejsciowego.")]
                      /\ predicted' = <<>>
                      /\ response' = Response("predict_text_form", 200, TRUE, "none", post)
                 ELSE IF out.exc # "none"
                 THEN /\ session' = IF saved THEN TextSession(session, txt) ELSE session
                      /\ predicted' = <<>>
                      /\ response' = Response("predict_text_form", 500, TRUE, out.exc, post)
                 ELSE /\ session' = TextResultSession(TextSession(session, txt), txt,
                                                      extracted, p, load)
                      /\ predicted' = IF extracted.missing = <<>> /\ p.exc = "none"
                                      THEN <<Call(p)>> ELSE <<>>
                      /\ response' = Response("predict_text_form", 200,
                                         extracted.missing = <<>>
                                         /\ ~(p.exc = "none" /\ load = "none"),
                                         "none", post)

\* the decoded bodies sent to predict and predict_form_ui: objects whose
\* fields vary one at a time, and values that are no object
Payloads ==
    LET m == Pair(K_sex, PyStr(<<"M">>))
        a == Pair(K_age, PyInt(40))
        ts == Pair(K_t5k_s, PyInt(1500))
    IN  {PyDict(x \o a \o ts) :
            x \in FormField(K_sex, {ABSENT, PyStr(<<" ", "k">>), PyStr(<<"X">>)})}
        \cup
        {PyDict(m \o x \o ts) :
            x \in FormField(K_age, {NONE, PyInt(9), PyInt(10), PyInt(90),
                                    PyInt(91), PyFloat(905), PyStr(<<"x">>)})}
        \cup
        {PyDict(m \o a \o x) :
            x \in FormField(K_t5k_s, {ABSENT, PyInt(719), PyInt(720),
                                      PyInt(3600), PyFloat(36005)})}
        \cup
        {PyDict(m \o a \o x) :
            x \in FormField(K_t5k, {PyStr(<<"1", "2", ":", "0", "0">>),
                                    PyStr(<<"a", "b">>)})}
        \cup
        {PyInt(42), PyList(<<>>), PyList(<<PyStr(K_sex)>>), PyStr(K_sex)}

\* a body that is no JSON text
BadBody == <<"{", "\"">>

\* request.body of predict and predict_form_ui
Bodies == {json_dumps(v) : v \in Payloads} \cup {BadBody}

\* request.body of the text endpoints
TextBodies ==
    LET tx == Pair(K_text, PyStr(<<"a", "b">>))
    IN  {json_dumps(PyDict(x)) :
            x \in {<<>>, tx, tx \o Pair(K_openai_api_key, PyStr(<<" ">>)),
                   tx \o Pair(K_openai_api_key, PyStr(<<"s", "k">>))}}
        \cup {json_dumps(PyList(<<>>)), BadBody}

\* json.loads(request.body.decode("utf-8")) of each body, computed once
Decoded == [body \in Bodies \cup TextBodies |-> json_loads(body)]

\* parse_input(payload) of each body, computed once
ParsedBody == [body \in Bodies |-> parse_input(Decoded[body].v)]

\* a JSON endpoint answers and leaves the session alone
Answer(e, st, err, unh, body, calls) ==
    /\ response' = Response(e, st, err, unh, PyStr(body))
    /\ predicted' = calls
    /\ UNCHANGED session

\* payload.get("text", "") and payload.get("openai_api_key", ""), stripped;
\* a payload that is no object has no get
TextField(j, k) ==
    IF j.ok /\ IsDict(j.v) THEN Strip(str(DictGet(j.v, k, EmptyStr))) ELSE <<>>

\* predict: POST /predict
Predict ==
    /\ UNCHANGED llmVars
    /\ \/ NotAllowed("predict", "POST")
       \/ \E body \in Bodies, load \in LoadOutcomes :
             \E j \in {Decoded[body]}, p \in {ParsedBody[body]} :
                 IF ~j.ok THEN Answer("predict", 400, TRUE, "none", body, <<>>)
                 ELSE IF p.exc = "ValueError"
                 THEN Answer("predict", 400, TRUE, "none", body, <<>>)
                 ELSE IF p.exc # "none"
                 THEN Answer("predict", 500, TRUE, p.exc, body, <<>>)
                 ELSE IF load # "none"
                 THEN Answer("predict", 500, TRUE, load, body, <<Call(p)>>)
                 ELSE Answer("predict", 200, FALSE, "none", body, <<Call(p)>>)

\* predict_form_ui: the left panel without a page reload
PredictFormUi ==
    /\ UNCHANGED llmVars
    /\ \/ NotAllowed("predict_form_ui", "POST")
       \/ \E body \in Bodies, load \in LoadOutcomes :
             \E j \in {Decoded[body]}, p \in {ParsedBody[body]} :
                 IF ~j.ok THEN Answer("predict_form_ui", 400, TRUE, "none", body, <<>>)
                 ELSE IF p.exc # "none"
                 THEN Answer("predict_form_ui", 400, TRUE, "none", body, <<>>)
                 ELSE IF load # "none"
                 THEN Answer("predict_form_ui", 400, TRUE, "none", body, <<Call(p)>>)
                 ELSE Answer("predict_form_ui", 200, FALSE, "none", body, <<Call(p)>>)

\* parse: POST /parse
Parse ==
    /\ UNCHANGED llmVars
    /\ \/ NotAllowed("parse", "POST")
       \/ \E body \in TextBodies, out \in ExtractCall(1, {}) :
             \E j \in {Decoded[body]} : \E txt \in {TextField(j, K_text)} :
                 IF ~j.ok THEN Answer("parse", 400, TRUE, "none", body, <<>>)
                 ELSE IF ~IsDict(j.v)
                 THEN Answer("parse", 500, TRUE, "AttributeError", body, <<>>)
                 ELSE IF txt = <<>> THEN Answer("parse", 400, TRUE, "none", body, <<>>)
                 ELSE IF out.exc # "none"
                 THEN Answer("parse", 500, TRUE, out.exc, body, <<>>)
                 ELSE Answer("parse", 200, FALSE, "none", body, <<>>)

\* predict_text: POST /predict_text
PredictText ==
    /\ UNCHANGED llmVars
    /\ \/ NotAllowed("predict_text", "POST")
       \/ \E body \in TextBodies, out \in ExtractCall(1, {}), load \in LoadOutcomes :
             \E j \in {Decoded[body]}, extracted \in {Extracted(out)},
                p \in {ParsedProfile(out)} : \E txt \in {TextField(j, K_text)} :
                 IF ~j.ok THEN Answer("predict_text", 400, TRUE, "none", body, <<>>)
                 ELSE IF ~IsDict(j.v)
                 THEN Answer("predict_text", 500, TRUE, "AttributeError", body, <<>>)
                 ELSE IF txt = <<>>
                 THEN Answer("predict_text", 400, TRUE, "none", body, <<>>)
                 ELSE IF out.exc # "none"
                 THEN Answer("predict_text", 500, TRUE, out.exc, body, <<>>)
                 ELSE IF extracted.missing # <<>>
                 THEN Answer("predict_text", 400, TRUE, "none", body, <<>>)
                 ELSE IF p.exc = "ValueError"
                 THEN Answer("predict_text", 400, TRUE, "none", body, <<>>)
                 ELSE IF p.exc # "none"
                 THEN Answer("predict_text", 500, TRUE, p.exc, body, <<>>)
                 ELSE IF load # "none"
                 THEN Answer("predict_text", 500, TRUE, load, body, <<Call(p)>>)
                 ELSE Answer("predict_text", 200, FALSE, "none", body, <<Call(p)>>)

\* predict_text_ui: the right panel without a page reload
PredictTextUi ==
    /\ UNCHANGED llmVars
    /\ \/ NotAllowed("predict_text_ui", "POST")
       \/ \E body \in TextBodies, out \in ExtractCall(1, {"api_key"}),
             load \in LoadOutcomes :
             \E j \in {Decoded[body]}, extracted \in {Extracted(out)},
                p \in {ParsedProfile(out)} :
             \E txt \in {TextField(j, K_text)}, key \in {TextField(j, K_openai_api_key)} :
                 IF ~j.ok THEN Answer("predict_text_ui", 400, TRUE, "none", body, <<>>)
                 ELSE IF ~IsDict(j.v)
                 THEN Answer("predict_text_ui", 500, TRUE, "AttributeError", body, <<>>)
                 ELSE IF txt = <<>> \/ key = <<>>
                 THEN Answer("predict_text_ui", 400, TRUE, "none", body, <<>>)
                 ELSE IF out.exc # "none"
                 THEN Answer("predict_text_ui", 500, TRUE, "none", body, <<>>)
                 ELSE IF extracted.missing # <<>>
                 THEN Answer("predict_text_ui", 200, FALSE, "none", body, <<>>)
                 ELSE IF p.exc # "none"
                 THEN Answer("predict_text_ui", 400, TRUE, "none", body, <<>>)
                 ELSE IF load # "none"
                 THEN Answer("predict_text_ui", 400, TRUE, "none", body, <<Call(p)>>)
                 ELSE Answer("predict_text_ui", 200, FALSE, "none", body, <<Call(p)>>)

\* no extraction is in progress while the endpoints are exercised
ViewInit ==
    /\ ViewsIdle
    /\ pc = "idle"
    /\ text = NONE
    /\ api_key = NONE
    /\ requests = <<>>
    /\ content = NONE
    /\ data = NONE
    /\ sex = NONE
    /\ age = NONE
    /\ t5k = NONE
    /\ t5k_s = NONE
    /\ missing = NONE
    /\ computed = NONE
    /\ result = NONE
    /\ raised = "none"

ViewNext ==
    \/ Home
    \/ PredictForm
    \/ PredictTextForm
    \/ Predict
    \/ PredictFormUi
    \/ Parse
    \/ PredictText
    \/ PredictTextUi

ViewSpec == ViewInit /\ [][ViewNext]_vars

---------------------------------------------------------------------------
(* Properties *)

\* the all-absent profile of the specification
AllAbsentProfile == Profile(NONE, NONE, NONE, NONE, <<"sex", "age", "t5k">>)

Contains(seq, x) == \E i \in 1..Len(seq) : seq[i] = x

\* the call has returned a dict built from a recovered object
Returned == pc = "done" /\ result # NONE /\ requests # <<>>

\* the call was made with an empty or whitespace-only text
EmptyText == pc = "done" /\ text = EmptyStr

\* the recovered object d with its missing entry replaced by m
WithMissing(d, m) ==
    IF m = ABSENT
    THEN PyDict(SelectSeq(d.kv, LAMBDA p : p.k # K_missing))
    ELSE PyDict(DictSet(d.kv, K_missing, m))

\* the dict the pipeline of extract builds from a recovered object d
ProfileOf(d) ==
    LET s0 == NormSex(DictGet(d, K_sex, NONE))
        a0 == NormAge(DictGet(d, K_age, NONE))
        t0 == NormT5k(DictGet(d, K_t5k, NONE))
        ts0 == NormT5kS(DictGet(d, K_t5k_s, NONE))
        ts1 == IF NeedsSeconds(t0, ts0)
               THEN PostT5kS(ts0, llm_time_to_seconds(t0)) ELSE ts0
    IN  Profile(s0, a0, t0, ts1, MissingClean(s0, a0, t0, ts1))

\* the raw fields of the recovered object
RawSex == DictGet(data, K_sex, NONE)

RawAge == DictGet(data, K_age, NONE)

RawT5k == DictGet(data, K_t5k, NONE)

RawT5kS == DictGet(data, K_t5k_s, NONE)

\* the request failed, or nothing could be recovered from its reply
NothingRecovered ==
    /\ pc = "done"
    /\ requests # <<>>
    /\ content = NONE \/ ~safe_json_loads(content).ok

\* C1: extract is total: whatever the text, the credentials and the outcome
\* of the request, the call ends with a profile and without an exception,
\* and a failed request or an unrecoverable reply gives the all-absent
\* profile.
C1_ExtractIsTotal ==
    pc = "done" =>
        /\ raised = "none"
        /\ result # NONE
        /\ NothingRecovered => result = AllAbsentProfile

\* C2: the returned missing list holds sex iff the returned sex is None, age
\* iff the returned age is None, t5k iff both the returned t5k and t5k_s are
\* None, and nothing else; the missing entry of the recovered object does
\* not influence any returned field.
C2_MissingIsRecomputed ==
    Returned =>
        /\ Contains(result.missing, "sex") <=> result.sex = NONE
        /\ Contains(result.missing, "age") <=> result.age = NONE
        /\ Contains(result.missing, "t5k") <=> (result.t5k = NONE /\ result.t5k_s = NONE)
        /\ \A i \in 1..Len(result.missing) :
              /\ result.missing[i] \in {"sex", "age", "t5k"}
              /\ \A j \in 1..Len(result.missing) : result.missing[i] = result.missing[j] => i = j
        /\ \A m \in MissingRaws : result = ProfileOf(WithMissing(data, m))

\* C2 witness: the reply lists age as missing although it supplies one, and
\* does not list the 5 km time although it supplies none; the returned list
\* says the opposite.
C2_Witness ==
    /\ Returned
    /\ DictGet(data, K_missing, NONE) = PyList(<<PyStr(K_age)>>)
    /\ result.age = PyInt(40)
    /\ result.missing = <<"t5k">>

\* C3: an empty or whitespace-only text gives the all-absent profile, whose
\* missing list is sex, age, t5k, without any request being sent.
C3_EmptyTextAllAbsent ==
    EmptyText => result = AllAbsentProfile /\ raised = "none" /\ requests = <<>>

\* C4: a non-empty text with absent or empty credentials gives the
\* all-absent profile, without an exception and without any request.
C4_NoCredentialsAllAbsent ==
    (pc = "done" /\ text # EmptyStr /\ ~Truthy(api_key)) =>
        result = AllAbsentProfile /\ raised = "none" /\ requests = <<>>

\* C6: a call with a non-empty text and non-empty credentials sends exactly
\* one request, with temperature 0, whether the request fails, its reply
\* cannot be parsed or a profile is returned; a call that ends for an empty
\* input sends none.
C6_ExactlyOneRequest ==
    /\ \A i \in 1..Len(requests) : requests[i].temperature = 0
    /\ pc \in {"start", "client", "create"} => requests = <<>>
    /\ pc \in {"await", "loads", "normalize", "post", "return"} => Len(requests) = 1
    /\ pc = "done" =>
          IF text # EmptyStr /\ Truthy(api_key)
          THEN Len(requests) = 1
          ELSE requests = <<>>

\* C6 witness: the request has failed and the call is over with that one
\* request sent.
C6_Witness ==
    /\ pc = "done"
    /\ raised \in ApiErrors
    /\ Len(requests) = 1
    /\ requests[1].temperature = 0

---------------------------------------------------------------------------
(* The normalisers as the specification describes them *)

IsSubSeq(sub, cs) ==
    \E i \in 0..(Len(cs) - Len(sub)) : SubSeq(cs, i + 1, i + Len(sub)) = sub

RECURSIVE DropPunct(_)
DropPunct(cs) ==
    IF cs # <<>> /\ cs[Len(cs)] \in {".", ",", "!", ";"}
    THEN DropPunct(SubSeq(cs, 1, Len(cs) - 1))
    ELSE cs

TwoDigitsBelow60(cs) == Len(cs) = 2 /\ AllDigits(cs) /\ DigitsValue(cs, 0) <= 59

\* displayToSeconds: MM:SS, HH:MM:SS, "<N> min...", "<N>m <S>s", else absent
ClaimedDisplayToSeconds(cs) ==
    LET parts == Split(cs, ":")
        words == Split(DropPunct(cs), " ")
        unit == IF Len(words) = 2 THEN Upper(words[2]) ELSE <<>>
        mPart == IF Len(words) = 2 /\ words[1] # <<>>
                 THEN SubSeq(words[1], 1, Len(words[1]) - 1) ELSE <<>>
        sPart == IF Len(words) = 2 /\ words[2] # <<>>
                 THEN SubSeq(words[2], 1, Len(words[2]) - 1) ELSE <<>>
    IN  IF /\ Len(parts) = 2
           /\ Len(parts[1]) \in {1, 2} /\ AllDigits(parts[1])
           /\ TwoDigitsBelow60(parts[2])
        THEN PyInt(DigitsValue(parts[1], 0) * 60 + DigitsValue(parts[2], 0))
        ELSE IF /\ Len(parts) = 3
                /\ Len(parts[1]) \in {1, 2} /\ AllDigits(parts[1])
                /\ TwoDigitsBelow60(parts[2])
                /\ TwoDigitsBelow60(parts[3])
        THEN PyInt(DigitsValue(parts[1], 0) * 3600 + DigitsValue(parts[2], 0) * 60
                   + DigitsValue(parts[3], 0))
        ELSE IF /\ Len(words) = 2
                /\ AllDigits(words[1])
                /\ unit \in { <<"M", "I", "N">>, <<"M", "I", "N", "U", "T">>,
                              <<"M", "I", "N", "U", "T", "Y">>,
                              <<"M", "I", "N", "U", "T", "A">>,
                              <<"M", "I", "N", "U", "T", "E", "S">> }
        THEN PyInt(DigitsValue(words[1], 0) * 60)
        ELSE IF /\ Len(words) = 2
                /\ AllDigits(mPart) /\ words[1][Len(words[1])] = "m"
                /\ AllDigits(sPart) /\ words[2][Len(words[2])] = "s"
        THEN PyInt(DigitsValue(mPart, 0) * 60
                   + (IF DigitsValue(sPart, 0) > 59 THEN 59 ELSE DigitsValue(sPart, 0)))
        ELSE NONE

\* the sex normaliser: letter codes, then full words, then roots, else UNKNOWN
ClaimedSex(raw) ==
    IF ~IsStr(raw) THEN NONE
    ELSE LET u == DropPunct(Upper(Strip(raw.s)))
         IN  IF u = <<"M">> THEN PyStr(<<"M">>)
             ELSE IF u = <<"K">> THEN PyStr(<<"K">>)
             ELSE IF u \in { <<"M", "A", "L", "E">>, <<"M", "A", "N">>,
                             <<"M", "E", "Z", "C", "Z", "Y", "Z", "N", "A">> }
             THEN PyStr(<<"M">>)
             ELSE IF u \in { <<"F", "E", "M", "A", "L", "E">>, <<"W", "O", "M", "A", "N">>,
                             <<"K", "O", "B", "I", "E", "T", "A">> }
             THEN PyStr(<<"K">>)
             ELSE IF IsSubSeq(<<"K", "O", "B", "I", "E", "T">>, u)
                     \/ IsSubSeq(<<"F", "E", "M", "A", "L", "E">>, u)
             THEN PyStr(<<"K">>)
             ELSE IF IsSubSeq(<<"M", "E", "Z", "C", "Z", "Y">>, u)
                     \/ IsSubSeq(<<"M", "A", "L", "E">>, u)
             THEN PyStr(<<"M">>)
             ELSE NONE

\* the age normaliser: the truncation of the parsed floating-point value
ClaimedAge(raw) ==
    IF raw = NONE \/ raw = EmptyStr THEN NONE
    ELSE IF raw.t \in {"int", "float", "str"} /\ float(raw).ok
    THEN PyInt(TruncX10(float(raw).x10))
    ELSE NONE

\* _time_to_seconds has been called on the str t5k
CodecApplied ==
    /\ pc \in {"return", "done"}
    /\ IsDict(data)
    /\ IsStr(t5k)
    /\ NeedsSeconds(t5k, NormT5kS(RawT5kS))

\* C5: a display string that the Time Codec cannot decode, with no usable
\* seconds value beside it, leaves the 5 km time absent: the returned
\* profile has no seconds and lists t5k as missing.
C5_UndecodableTimeIsMissing ==
    (/\ Returned
     /\ IsStr(RawT5k) /\ Strip(RawT5k.s) # <<>>
     /\ NormT5kS(RawT5kS) = NONE
     /\ llm_time_to_seconds(RawT5k) = NONE
     /\ ClaimedDisplayToSeconds(Strip(RawT5k.s)) = NONE)
    => result.t5k_s = NONE /\ Contains(result.missing, "t5k")

\* C7: _time_to_seconds gives minutes*60+seconds for MM:SS (minutes of one
\* or two digits, seconds of two digits up to 59), hours*3600+minutes*60+
\* seconds for HH:MM:SS, N*60 for "<N> min/minut/minuty/minuta/minutes",
\* N*60+S for "<N>m <S>s", and absent for every other string.
C7_TimeCodecForms ==
    CodecApplied => computed = ClaimedDisplayToSeconds(t5k.s)

\* C8: the returned sex is M, K or None: M or K for the letter codes, the
\* full words and the roots, None for every other value, values that are
\* not strings included.
C8_SexIsCanonical ==
    Returned =>
        /\ result.sex \in {PyStr(<<"M">>), PyStr(<<"K">>), NONE}
        /\ result.sex = ClaimedSex(RawSex)

\* C9: the returned age is an int or None: None for null and the empty
\* string, the int itself, the truncation of the parsed float for a float
\* or a numeric string, None for any other value; the sex and the time of
\* the result do not depend on the age.
C9_AgeIsIntOrAbsent ==
    Returned =>
        /\ result.age = NONE \/ result.age.t = "int"
        /\ result.age = ClaimedAge(RawAge)
        /\ \A a \in AgeRaws :
              LET other == ProfileOf(PyDict(DictSet(data.kv, K_age, a)))
              IN  /\ other.sex = result.sex
                  /\ other.t5k = result.t5k
                  /\ other.t5k_s = result.t5k_s

\* C10: _safe_json_loads returns the value of the whole stripped text when
\* that is JSON, else the value of the span from the first { to the last }
\* when that is JSON, else it fails; a value it returns is an object.
C10_RecoveryYieldsObject ==
    LET stripped == Strip(content.s)
        direct == json_loads(stripped)
        m == BraceSearch(stripped)
        block == IF m.ok THEN json_loads(m.group) ELSE [ok |-> FALSE, v |-> NONE]
    IN  /\ pc = "normalize" =>
              /\ direct.ok \/ block.ok
              /\ data = IF direct.ok THEN direct.v ELSE block.v
              /\ IsDict(data)
        /\ (pc = "done" /\ content # NONE /\ data = NONE /\ raised = "ValueError") =>
              ~direct.ok /\ ~block.ok

\* C12: for every number of seconds s >= 0, _time_to_seconds applied to
\* the string of _format_mmss(s) gives round(s), also when the minutes take
\* three digits.
C12_RoundTrip ==
    pc = "decoded" => computed = PyInt(PyRound(t5k_s.x10))

\* C12 witness: 100 minutes and more, with a fraction that is rounded up
\* into the next minute.
C12_Witness ==
    /\ pc = "decoded"
    /\ t5k_s = PyFloat(60596)
    /\ t5k = PyStr(<<"1", "0", "1", ":", "0", "0">>)
    /\ computed = PyInt(6060)

\* the recovered object supplies a usable seconds value and no display string
SecondsOnly == NormT5kS(RawT5kS) # NONE /\ NormT5k(RawT5k) = NONE

\* the recovered object supplies a decodable display string and no seconds
DisplayOnly ==
    /\ NormT5kS(RawT5kS) = NONE
    /\ IsStr(RawT5k)
    /\ ClaimedDisplayToSeconds(Strip(RawT5k.s)) # NONE

\* C11: in every profile returned by extract the seconds and the display
\* string complete each other: seconds without a display string give the
\* zero-padded MM:SS string of those seconds, and a decodable display
\* string without seconds gives the decoded seconds.
C11_MutuallyCompleted ==
    Returned =>
        /\ SecondsOnly => result.t5k = PyStr(format_mmss(result.t5k_s))
        /\ DisplayOnly =>
              result.t5k_s = PyFloat(ClaimedDisplayToSeconds(Strip(RawT5k.s)).n * 10)

---------------------------------------------------------------------------
(* The endpoints of predictor/views.py *)

\* the endpoints that take the runner's values from the request itself
ValueEndpoints == {"predict", "predict_form", "predict_form_ui"}

\* the payload a request of a value endpoint carries: the posted fields, or
\* the decoded body (NONE for a body that is no JSON text)
RequestPayload ==
    IF response.endpoint = "predict_form" THEN response.request
    ELSE IF Decoded[response.request.s].ok THEN Decoded[response.request.s].v
    ELSE NONE

\* the number a request gives for a field, in tenths; none for any other value
NumberX10(v) ==
    CASE v.t = "int" -> [ok |-> TRUE, x10 |-> v.n * 10]
      [] v.t = "float" -> [ok |-> TRUE, x10 |-> v.x10]
      [] v.t = "str" -> FloatOfChars(Strip(v.s))
      [] OTHER -> [ok |-> FALSE, x10 |-> 0]

\* the request names a sex in {M, K}, an age within 10..90 and a 5 km time
\* within 720..3600 seconds
ClaimedValid(payload) ==
    /\ IsDict(payload)
    /\ LET s == DictGet(payload, K_sex, NONE)
           a == NumberX10(DictGet(payload, K_age, NONE))
           ts == DictGet(payload, K_t5k_s, NONE)
           t == DictGet(payload, K_t5k, NONE)
           secs == IF ~IsNoneOrEmpty(ts) THEN NumberX10(ts)
                   ELSE IF IsStr(t) /\ views_time_to_seconds(t).ok
                   THEN [ok |-> TRUE, x10 |-> views_time_to_seconds(t).n * 10]
                   ELSE [ok |-> FALSE, x10 |-> 0]
       IN  /\ IsStr(s) /\ Upper(Strip(s.s)) \in {<<"M">>, <<"K">>}
           /\ a.ok /\ 10 * 10 <= a.x10 /\ a.x10 <= 90 * 10
           /\ secs.ok /\ 720 * 10 <= secs.x10 /\ secs.x10 <= 3600 * 10

\* the arguments of a call of the regression are within the bounds
ValidCall(c) ==
    /\ c.sex \in {<<"M">>, <<"K">>}
    /\ 10 <= c.age /\ c.age <= 90
    /\ 720 * 10 <= c.t5k_s /\ c.t5k_s <= 3600 * 10

\* C13: in every endpoint the regression is invoked only with sex in {M, K},
\* an integer age within 10..90 and a 5 km time within 720..3600 seconds, and
\* a request whose values are missing or outside these bounds is answered
\* with an error and without a prediction
C13_RegressionOnlyOnValidInput ==
    /\ \A i \in 1..Len(predicted) : ValidCall(predicted[i])
    /\ (response.endpoint \in ValueEndpoints /\ response.status # 405
        /\ ~ClaimedValid(RequestPayload))
           => response.error /\ predicted = <<>>

\* C14: a predict_form request leaves text_data, text_result and error_right
\* as they were, a predict_text_form request leaves form_data, result and
\* error_left as they were, and only a GET of home clears the six keys
C14_PanelsIndependent ==
    [][/\ response'.endpoint = "predict_form"
            => \A k \in RightKeys : session'[k] = session[k]
       /\ response'.endpoint = "predict_text_form"
            => \A k \in LeftKeys : session'[k] = session[k]
       /\ (response'.endpoint = "home" /\ response'.status = 200)
            => \A k \in SessionKeys : session'[k] = ABSENT
       /\ (session' # session /\ \A k \in SessionKeys : session'[k] = ABSENT)
            => response'.endpoint = "home" /\ response'.status = 200]_vars

\* a failing extraction of the right panel after a prediction of the left one
C14_Witness ==
    /\ response.endpoint = "predict_text_form"
    /\ response.unhandled = "TypeError"
    /\ session["text_data"] # ABSENT
    /\ session["form_data"] # ABSENT
    /\ session["result"].t = "prediction"

\* C15: parse_input returns the triple or raises ValueError for every decoded
\* payload, an object or not, so predict answers every invalid body with 400
\* and never with an unhandled exception
C15_ParseInputRaisesOnlyValueError ==
    (response.endpoint = "predict" /\ response.status # 405
     /\ Decoded[response.request.s].ok)
        => /\ ParsedBody[response.request.s].exc \in {"none", "ValueError"}
           /\ ParsedBody[response.request.s].exc # "none"
                => response.status = 400 /\ response.unhandled = "none"

====
